---- MODULE Spec2Model ----
(***************************************************************************)
(* A model of the pitaya cluster RPC client pool (cluster/grpc_rpc_client) *)
(* and of the handler dispatch (service/util.go processHandlerMessage).    *)
(*                                                                         *)
(* The pool is a concurrent program: every pool operation runs on a        *)
(* goroutine (a member of Procs) and is cut into steps at its accesses to  *)
(* shared memory (the sync.Map, a peer client's mutex and fields, the      *)
(* transport).  The dispatch is a sequential program driven step by step   *)
(* through its callbacks (hooks, handler, serializer).                     *)
(***************************************************************************)
EXTENDS Integers, Sequences, FiniteSets, TLC

\* ------------------------------------------------------------------ bounds
MaxClients == 2
MaxConns == 2
\* pitaya.cluster.rpc.client.grpc.requesttimeout, in clock ticks
ReqTimeout == 1
MaxHooks == 2
MaxCode == 2
MaxDict == 2

\* the goroutines that run pool operations side by side
Procs == {1, 2}
ClientIds == 1 .. MaxClients
ConnIds == 1 .. MaxConns
NoClient == 0
NoConn == 0
NoProc == 0
\* a context without a deadline
NoDeadline == 0 - 1
\* the deadlines a caller's context may already carry (ticks left)
ParentDeadlines == {NoDeadline, 1}

\* ------------------------------------------------------------ data values
ServerIDs == {"A", "B"}
Users == {"u1"}
ServerTypes == {"chat", "game"}
Missing == "<absent>"

RegionKey == "region"
GRPCHostKey == "grpcHost"
GRPCPortKey == "grpcPort"
GRPCExternalHostKey == "grpc-external-host"
GRPCExternalPortKey == "grpc-external-port"
MetaKeys == {RegionKey, GRPCHostKey, GRPCPortKey, GRPCExternalHostKey, GRPCExternalPortKey}

\* sv.Metadata as a function on MetaKeys; Missing marks a key not in the map
Meta(region, host, port, xhost, xport) ==
    (RegionKey :> region) @@ (GRPCHostKey :> host) @@ (GRPCPortKey :> port)
    @@ (GRPCExternalHostKey :> xhost) @@ (GRPCExternalPortKey :> xport)

Server(id, typ, md) == [ID |-> id, Type |-> typ, Metadata |-> md]

\* no server reported yet
NoServer == Server("", "", Meta(Missing, Missing, Missing, Missing, Missing))
\* gs.server: the local server
LocalServer == Server("L", "game", Meta("us", "10.0.0.9", "3434", Missing, Missing))
\* gs.infoRetriever.Region()
LocalRegion == "us"

\* the servers the discovery watcher may report
DiscoveredServers ==
    { Server("A", "chat", Meta("us", "10.0.0.1", "3434", "1.1.1.1", "3435")),
      Server("B", "chat", Meta("eu", "10.0.0.2", "3434", "2.2.2.2", "3435")),
      Server("A", "chat", Meta(Missing, Missing, "3434", "", Missing)),
      Server("B", "chat", Meta("eu", "10.0.0.2", "3434", "2.2.2.2", Missing)) }
\* what a reported server's metadata may hold under each key
MetaRegions == {Missing, "", "us", "eu"}
MetaHosts == {Missing, "10.0.0.1"}
MetaPorts == {Missing, "3434"}
MetaExternalHosts == {Missing, "", "1.1.1.1"}
MetaExternalPorts == {Missing, "3435"}
\* every server the discovery watcher may report, by metadata
ReportedServers ==
    { Server(id, "chat", Meta(region, host, port, xhost, xport)) :
        id \in ServerIDs, region \in MetaRegions, host \in MetaHosts, port \in MetaPorts,
        xhost \in MetaExternalHosts, xport \in MetaExternalPorts }
\* the server ids the membership specification churns
CoreIDs == {"A"}

\* ------------------------------------------------------------------ errors
Err(type, code, msg, metadata) ==
    [type |-> type, code |-> code, msg |-> msg, metadata |-> metadata]
NilErr == Err("nil", "", "", "")
Sentinel(name) == Err("constants", name, "", "")
Transport(name) == Err("transport", name, "", "")

ErrNoConnectionToServer == Sentinel("ErrNoConnectionToServer")
ErrNoBindingStorageModule == Sentinel("ErrNoBindingStorageModule")
ErrNotImplemented == Sentinel("ErrNotImplemented")
ErrUnknownCode == "ErrUnknownCode"
\* what buildRequest, grpc.Dial, the binding directory and the transport fail with
ErrBuildRequest == Err("build", "ErrBuildRequest", "", "")
ErrDial == Transport("DialError")
ErrBindingLookup == Err("binding", "ErrBindingLookup", "", "")
ErrUnavailable == Transport("Unavailable")
ErrCanceled == Transport("Canceled")
ErrDeadlineExceeded == Transport("DeadlineExceeded")

\* protos.Error inside a protos.Response; present = FALSE is res.Error == nil
PErr(present, code, msg, metadata) ==
    [present |-> present, code |-> code, msg |-> msg, metadata |-> metadata]
NoPErr == PErr(FALSE, "", "", "")
Response(data, error) == [nil |-> FALSE, data |-> data, error |-> error]
NilResponse == [nil |-> TRUE, data |-> "", error |-> NoPErr]

\* what a reachable peer may answer to Call
PeerResponses ==
    { Response("pong", NoPErr),
      Response("", PErr(TRUE, "PIT-404", "x", "m")),
      Response("", PErr(TRUE, "", "x", "m")) }

\* the result of one pool operation: (response, error)
Result(resp, err) == [resp |-> resp, err |-> err]
NoResult == Result(NilResponse, NilErr)

\* one pool operation and its arguments
Op(name, id, uid, typ) == [name |-> name, id |-> id, uid |-> uid, typ |-> typ]
NoOp == Op("none", "", "", "")

\* a request handed to the transport
Request(method, client, conn, deadline) ==
    [method |-> method, client |-> client, conn |-> conn, deadline |-> deadline]
NoRequest == Request("none", NoClient, NoConn, NoDeadline)

\* one GetUserFrontendID call: its arguments and what it returned
Lookup(uid, typ, id, err) == [uid |-> uid, typ |-> typ, id |-> id, err |-> err]
NoLookup == Lookup("", "", "", NilErr)

\* a binding directory: (uid, serverType) -> (frontendId, err)
Binding(id, err) == [id |-> id, err |-> err]
Directories ==
    { [u \in Users |-> ("chat" :> Binding("A", NilErr)) @@ ("game" :> Binding("B", NilErr))],
      [u \in Users |-> ("chat" :> Binding("B", NilErr)) @@ ("game" :> Binding("A", ErrBindingLookup))],
      [u \in Users |-> ("chat" :> Binding("", ErrBindingLookup)) @@ ("game" :> Binding("", NilErr))],
      [u \in Users |-> ("chat" :> Binding("", NilErr)) @@ ("game" :> Binding("A", NilErr))] }

\* a grpcClient
Client(address, cli, conn, connected) ==
    [address |-> address, cli |-> cli, conn |-> conn, connected |-> connected]
NoClientRec == Client("", NoConn, NoConn, FALSE)

VARIABLES
    \* GRPCClient
    clientMap,      \* gs.clientMap: server id -> client (NoClient: no entry)
    lazy,           \* gs.lazy
    hasBinding,     \* gs.bindingStorage != nil
    directory,      \* what gs.bindingStorage.GetUserFrontendID answers
    \* the heap
    clients,        \* every grpcClient ever allocated
    nextClient,     \* the next grpcClient to allocate
    lock,           \* gc.lock: the goroutine holding it, or NoProc
    conns,          \* every *grpc.ClientConn: "unused", "open" or "closed"
    \* the goroutines
    pc,             \* where each goroutine is in its operation
    op,             \* the operation it runs
    cl,             \* its local c: the client it loaded from the map
    timer,          \* the ticks left of its request's context
    ret,            \* what its operation returned
    \* history
    sent,           \* the request its operation handed to the transport
    lookup,         \* the GetUserFrontendID call its operation made
    answer,         \* what the transport returned to it
    addReturned,    \* for the ids of CoreIDs: an AddServer(id) returned since the
                    \* last RemoveServer(id) step
    addStored,      \* ... and its metadata named a host and a port
    seen,           \* the server the discovery watcher last reported
    \* the dispatch (service/util.go)
    nBefore,        \* len(pipeline.BeforeHandler.Handlers)
    nAfter,         \* len(pipeline.AfterHandler.Handlers)
    dpc,            \* where processHandlerMessage is
    din,            \* its arguments: rt, msgTypeIface, remote, data
    dh,             \* h: the key of the handler found, "" when none
    dtype,          \* msgType
    darg,           \* arg
    dresp,          \* resp
    derr,           \* err
    dhook,          \* the next hook of the chain being run
    dlog,           \* history: the callbacks called, in order
    dout,           \* what processHandlerMessage returned
    \* the route dictionary (message package, component/service.go)
    routes,         \* route -> code
    codes,          \* code -> route
    dictArg,        \* history: the map the last SetDictionary was given
    dictOld,        \* history: routes and codes as that call found them
    dictErr,        \* history: what that call returned
    \* the service registry (component/service.go)
    svc,            \* the Service last made by NewService
    regRet          \* history: what the last Extract call on it returned

mapVars == <<clientMap>>
cfgVars == <<lazy, hasBinding, directory>>
heapVars == <<clients, nextClient, lock, conns>>
procVars == <<pc, op, cl, timer, ret>>
histVars == <<sent, lookup, answer>>
addVars == <<addReturned, addStored>>
watchVars == <<seen>>
poolVars == <<mapVars, cfgVars, heapVars, procVars, histVars, addVars, watchVars>>

\* the dispatch
hookVars == <<nBefore, nAfter>>
dispVars == <<hookVars, dpc, din, dh, dtype, darg, dresp, derr, dhook, dlog, dout>>

\* the route dictionary
dictVars == <<routes, codes, dictArg, dictOld, dictErr>>
\* what is set up before traffic is served
\* the service being registered
regVars == <<svc, regRet>>
startVars == <<dictVars, regVars>>

\* what no pool step changes
fixedVars == <<cfgVars, watchVars, dispVars, startVars>>

vars == <<poolVars, dispVars, startVars>>

\* ----------------------------------------------------- the dispatch values
\* message.Type
TypeRequest == 0
TypeNotify == 1
TypeResponse == 2
TypePush == 3
MessageTypes == {TypeRequest, TypeNotify, TypeResponse, TypePush}

\* the codes of errors.NewError
ErrNotFoundCode == "ErrNotFoundCode"
ErrInternalCode == "ErrInternalCode"
ErrBadRequestCode == "ErrBadRequestCode"
NewError(err, code) == Err("pitaya", code, err.msg, "")

errInvalidMsg == Err("errors", "", "invalid message type provided", "")
ErrRequestOnNotify == Err("constants", "ErrRequestOnNotify", "request on notify", "")
ErrNotifyOnRequest == Err("constants", "ErrNotifyOnRequest", "notify on request", "")
\* what a serializer, a handler and a hook fail with
ErrUnmarshal == Err("serializer", "", "unmarshal", "")
ErrMarshal == Err("serializer", "", "marshal", "")
ErrHandler == Err("handler", "", "handler", "")
ErrPanic == Err("pcall", "", "panic", "")
ErrHook == Err("hook", "", "hook", "")

\* an interface{} value: nil, a []byte or a pointer to a struct
Nil == [kind |-> "nil", v |-> ""]
Bytes(s) == [kind |-> "bytes", v |-> s]
Obj(s) == [kind |-> "obj", v |-> s]

\* route.Route and its two renderings
Route(svType, service, method) ==
    [SvType |-> svType, Service |-> service, Method |-> method]
Short(rt) == rt.Service \o "." \o rt.Method
String(rt) == IF rt.SvType # "" THEN rt.SvType \o "." \o Short(rt) ELSE Short(rt)

\* component.Handler; Typed is Type != nil
Handler(isRawArg, typed, messageType) ==
    [IsRawArg |-> isRawArg, Typed |-> typed, MessageType |-> messageType]
\* the handlers registered at startup, by short route
handlers ==
    [k \in {"Room.Join", "Room.Leave", "Room.Raw"} |->
        CASE k = "Room.Join" -> Handler(FALSE, TRUE, TypeRequest)
          [] k = "Room.Leave" -> Handler(FALSE, FALSE, TypeNotify)
          [] k = "Room.Raw" -> Handler(TRUE, FALSE, TypeRequest)]

\* the arguments processHandlerMessage is called with
Routes ==
    { Route("", "Room", "Join"), Route("game", "Room", "Leave"),
      Route("", "Room", "Raw"), Route("", "Room", "Nope"),
      Route("chat", "Lobby", "Join") }
Iface(kind, mt, pt) == [kind |-> kind, mt |-> mt, pt |-> pt]
MsgTypeIfaces ==
    {Iface("message", t, "") : t \in MessageTypes}
        \cup {Iface("proto", TypeRequest, pt) : pt \in {"MsgRequest", "MsgNotify", "MsgPush"}}
        \cup {Iface("other", TypeRequest, "")}
Payloads == {"join", "garbage"}
Input(rt, iface, remote, data) ==
    [rt |-> rt, iface |-> iface, remote |-> remote, data |-> data]
NoInput == Input(Route("", "", ""), Iface("other", TypeRequest, ""), FALSE, "")

\* one callback called by the dispatch
\* what: which callback; i: its place in its chain; (v, err): what it was
\* given; (ov, oerr): what it returned
Ev(what, i, v, err, ov, oerr) ==
    [what |-> what, i |-> i, v |-> v, err |-> err, ov |-> ov, oerr |-> oerr]
\* (payload, error) as processHandlerMessage returns it
Out(payload, err) == [payload |-> payload, err |-> err]
NoOut == Out(Nil, NilErr)

getHandlerAnyRoute(rt) ==
    IF Short(rt) \in DOMAIN handlers
        THEN [h |-> Short(rt), err |-> NilErr]
        ELSE [h |-> "Room.Join", err |-> NilErr]

getHandler(rt) ==
    IF Short(rt) \notin DOMAIN handlers
        THEN [h |-> "", err |-> Err("fmt", "", "pitaya/handler: " \o String(rt) \o " not found", "")]
        ELSE [h |-> Short(rt), err |-> NilErr]

ConvertProtoToMessageType(pt) ==
    CASE pt = "MsgRequest" -> TypeRequest
      [] pt = "MsgNotify" -> TypeNotify
      [] OTHER -> TypeRequest

getMsgType(msgTypeIface) ==
    IF msgTypeIface.kind = "message"
        THEN [t |-> msgTypeIface.mt, err |-> NilErr]
    ELSE IF msgTypeIface.kind = "proto"
        THEN [t |-> ConvertProtoToMessageType(msgTypeIface.pt), err |-> NilErr]
    ELSE [t |-> TypeRequest, err |-> errInvalidMsg]

ValidateMessageTypeNeverExit(h, msgType) ==
    IF h.MessageType # msgType
        THEN CASE msgType = TypeRequest -> [exit |-> FALSE, err |-> ErrRequestOnNotify]
               [] msgType = TypeNotify -> [exit |-> FALSE, err |-> ErrNotifyOnRequest]
               [] OTHER -> [exit |-> FALSE, err |-> NilErr]
        ELSE [exit |-> FALSE, err |-> NilErr]

ValidateMessageTypeAlwaysExit(h, msgType) ==
    IF h.MessageType # msgType
        THEN CASE msgType = TypeRequest -> [exit |-> TRUE, err |-> ErrRequestOnNotify]
               [] msgType = TypeNotify -> [exit |-> TRUE, err |-> ErrNotifyOnRequest]
               [] OTHER -> [exit |-> FALSE, err |-> NilErr]
        ELSE [exit |-> FALSE, err |-> NilErr]


ValidateMessageType(h, msgType) ==
    IF h.MessageType # msgType
        THEN CASE msgType = TypeRequest -> [exit |-> TRUE, err |-> ErrRequestOnNotify]
               [] msgType = TypeNotify -> [exit |-> FALSE, err |-> ErrNotifyOnRequest]
               [] OTHER -> [exit |-> FALSE, err |-> NilErr]
        ELSE [exit |-> FALSE, err |-> NilErr]

\* serializer.Unmarshal into a fresh value of the handler's argument type
Unmarshal(payload) ==
    IF payload = "garbage" THEN [v |-> Nil, err |-> ErrUnmarshal]
                           ELSE [v |-> Obj("arg:" \o payload), err |-> NilErr]

\* a slip: a raw handler's payload goes through the serializer too
unmarshalHandlerArgDecodeRaw(h, payload) ==
    IF h.IsRawArg \/ h.Typed
        THEN [v |-> Unmarshal(payload).v, err |-> Unmarshal(payload).err, called |-> TRUE]
        ELSE [v |-> Nil, err |-> NilErr, called |-> FALSE]


unmarshalHandlerArg(h, payload) ==
    IF h.IsRawArg THEN [v |-> Bytes(payload), err |-> NilErr, called |-> FALSE]
    ELSE IF h.Typed
        THEN [v |-> Unmarshal(payload).v, err |-> Unmarshal(payload).err, called |-> TRUE]
        ELSE [v |-> Nil, err |-> NilErr, called |-> FALSE]

\* what one hook of the before chain may return for res
BeforeOutcomes(res) ==
    { [v |-> res, err |-> NilErr], [v |-> Obj("pre:" \o res.v), err |-> NilErr],
      [v |-> res, err |-> ErrHook] }
\* what one hook of the after chain may return for (ret, err)
AfterOutcomes(res, err) ==
    { [v |-> res, err |-> err], [v |-> Obj("post:" \o res.v), err |-> NilErr],
      [v |-> res, err |-> ErrHook] }
\* what util.Pcall may return: the handler's reply or error, or a trapped panic
PcallOutcomes ==
    { [v |-> Obj("reply"), err |-> NilErr], [v |-> Obj("unserializable"), err |-> NilErr],
      [v |-> Bytes("raw"), err |-> NilErr], [v |-> Nil, err |-> NilErr],
      [v |-> Nil, err |-> ErrHandler], [v |-> Nil, err |-> ErrPanic] }

\* util.SerializeOrRaw: bytes as they are, anything else through the serializer
SerializeOrRaw(v) ==
    IF v.kind = "bytes" THEN [res |-> v, err |-> NilErr]
    ELSE IF v = Obj("unserializable") THEN [res |-> Nil, err |-> ErrMarshal]
    ELSE [res |-> Bytes("ser:" \o v.kind \o ":" \o v.v), err |-> NilErr]
\* util.GetErrorPayload serializes the error itself, which may fail as well
GetErrorPayload(err) ==
    { [res |-> Bytes("ser:error:" \o err.msg), err |-> NilErr],
      [res |-> Nil, err |-> ErrMarshal] }

serializeReturn(v) ==
    IF SerializeOrRaw(v).err # NilErr
        THEN { IF r.err # NilErr THEN [res |-> Nil, err |-> r.err]
                                 ELSE [res |-> r.res, err |-> NilErr] :
               r \in GetErrorPayload(SerializeOrRaw(v).err) }
        ELSE { [res |-> SerializeOrRaw(v).res, err |-> NilErr] }

\* no dispatch in progress
DispatchIdle ==
    /\ dpc = "idle"
    /\ din = NoInput
    /\ dh = ""
    /\ dtype = TypeRequest
    /\ darg = Nil
    /\ dresp = Nil
    /\ derr = NilErr
    /\ dhook = 0
    /\ dlog = <<>>
    /\ dout = NoOut

\* no dispatch and no hooks: the dispatch left out
NoDispatch ==
    /\ nBefore = 0
    /\ nAfter = 0
    /\ DispatchIdle

\* --------------------------------------------------- the dictionary values
\* a route string as its characters
RawRoutes == { <<"a">>, <<" ", "a">>, <<"b">>, <<"b", " ">> }
\* uint16 codes
Codes == 1 .. MaxCode

RECURSIVE TrimLeft(_)
TrimLeft(s) == IF s # <<>> /\ Head(s) = " " THEN TrimLeft(Tail(s)) ELSE s
RECURSIVE TrimRight(_)
TrimRight(s) ==
    IF s # <<>> /\ s[Len(s)] = " " THEN TrimRight(SubSeq(s, 1, Len(s) - 1)) ELSE s
\* strings.TrimSpace
TrimSpace(s) == TrimRight(TrimLeft(s))

\* one key and value of a map[string]uint16
Entry16(route, code) == [route |-> route, code |-> code]
\* a map[string]uint16 of at most MaxDict entries; nil is the nil map
Dict(nil, entries) == [nil |-> nil, entries |-> entries]
NilDict == Dict(TRUE, {})
Dicts ==
    {NilDict} \cup
    { Dict(FALSE, es) : es \in
        { es \in SUBSET {Entry16(r, c) : r \in RawRoutes, c \in Codes} :
            /\ Cardinality(es) <= MaxDict
            /\ \A e1, e2 \in es : e1.route = e2.route => e1 = e2 } }
\* the orders in which range may visit the entries of a map
Orders(es) ==
    { o \in [1 .. Cardinality(es) -> es] : \A i, j \in 1 .. Cardinality(es) : o[i] = o[j] => i = j }

\* m[k] = v
Put(m, k, v) == [x \in DOMAIN m \cup {k} |-> IF x = k THEN v ELSE m[x]]
EmptyMap == [x \in {} |-> 0]
ErrDuplicated == Err("fmt", "", "duplicated route", "")
Tables(r, c, err) == [routes |-> r, codes |-> c, err |-> err]

\* routes and codes as make() leaves them, no SetDictionary yet
DictStart ==
    /\ routes = EmptyMap
    /\ codes = EmptyMap
    /\ dictArg = NilDict
    /\ dictOld = Tables(EmptyMap, EmptyMap, NilErr)
    /\ dictErr = NilErr

\* ----------------------------------------------------- the registry values
\* a component handed to NewService: as a value or as a pointer, of a type
\* with this name, with the handler and remote methods that
\* suitableHandlerMethods and suitableRemoteMethods find on the value type
\* (hv, rv) and find in addition on the pointer type (hp, rp)
Comp(form, typeName, hv, hp, rv, rp) ==
    [form |-> form, typeName |-> typeName, hv |-> hv, hp |-> hp, rv |-> rv, rp |-> rp]
TypeNames == {"", "room", "Room"}
Comps ==
    { Comp(f, n, hv, hp, rv, rp) :
        f \in {"value", "pointer"}, n \in TypeNames,
        hv \in SUBSET {"Join"}, hp \in SUBSET {"Leave"},
        rv \in SUBSET {"Sync"}, rp \in SUBSET {"Kick"} }
NoComp == Comp("none", "", {}, {}, {}, {})
\* the names a registration option may give the service; "" is no option
OptionNames == {"", "lobby"}
\* isExported: the name starts with an upper-case letter
isExported(name) == name \in {"Room"}

\* reflect.Value of the component, and the zero reflect.Value
Receiver(comp) == [valid |-> TRUE, comp |-> comp]
NoReceiver == [valid |-> FALSE, comp |-> NoComp]

\* the level of indirection of s.Type and of reflect.PtrTo(s.Type)
TypeOf(comp) == IF comp.form = "pointer" THEN 1 ELSE 0
PtrTo(typ) == typ + 1
\* the methods found on the type at that level: a pointer type has the
\* methods of its value type as well, a pointer to a pointer has none
suitableHandlerMethods(comp, typ) ==
    LET names == CASE typ = 0 -> comp.hv
                   [] typ = 1 -> comp.hv \cup comp.hp
                   [] OTHER -> {}
    IN  [n \in names |-> NoReceiver]
suitableRemoteMethods(comp, typ) ==
    LET names == CASE typ = 0 -> comp.rv
                   [] typ = 1 -> comp.rv \cup comp.rp
                   [] OTHER -> {}
    IN  [n \in names |-> NoReceiver]

\* component.Service; Handlers and Remotes map a method name to the Receiver
\* of its descriptor
Service(comp, name, hs, rs) ==
    [comp |-> comp, Name |-> name, Handlers |-> hs, Remotes |-> rs]
NoService == Service(NoComp, "", EmptyMap, EmptyMap)
\* what ExtractHandler or ExtractRemote returned
Extracted(fn, err) == [fn |-> fn, err |-> err]
NoExtracted == Extracted("none", NilErr)
Hint == " (hint: pass a pointer to value of that type)"
ErrNew(msg) == Err("errors", "", msg, "")

\* no service made yet
RegStart ==
    /\ svc = NoService
    /\ regRet = NoExtracted

\* ------------------------------------------------------------ the pool

\* sync.Map Load: the value, NoClient when ok is false
Load(m, id) == IF id \in DOMAIN m THEN m[id] ELSE NoClient
\* sync.Map Store
Store(m, id, c) == [m EXCEPT ![id] = c]

Get(md, k) == IF md[k] = Missing THEN "" ELSE md[k]

\* a slip: the caller's region is not compared with the server's
getServerHostIgnoreRegion(sv) ==
    LET externalHost == Get(sv.Metadata, GRPCExternalHostKey)
        internalHost == Get(sv.Metadata, GRPCHostKey)
        hasExternal == sv.Metadata[GRPCExternalHostKey] # Missing /\ externalHost # ""
    IN  IF hasExternal
        THEN <<externalHost, GRPCExternalPortKey>>
        ELSE <<internalHost, GRPCPortKey>>


\* GRPCClient.getServerHost: <<host, portKey>>
getServerHost(sv) ==
    LET serverRegion == Get(sv.Metadata, RegionKey)
        externalHost == Get(sv.Metadata, GRPCExternalHostKey)
        internalHost == Get(sv.Metadata, GRPCHostKey)
        hasRegion == sv.Metadata[RegionKey] # Missing /\ serverRegion # ""
        hasExternal == sv.Metadata[GRPCExternalHostKey] # Missing /\ externalHost # ""
    IN  IF ~hasRegion
        THEN IF hasExternal
             THEN <<externalHost, GRPCExternalPortKey>>
             ELSE <<internalHost, GRPCPortKey>>
        ELSE IF LocalRegion = serverRegion \/ ~hasExternal
             THEN <<internalHost, GRPCPortKey>>
             ELSE <<externalHost, GRPCExternalPortKey>>

\* fmt.Sprintf("%s:%s", host, port)
Address(host, port) == host \o ":" \o port

FreeConns == {k \in ConnIds : conns[k] = "unused"}
NewConn == CHOOSE k \in FreeConns : \A j \in FreeConns : k <= j

\* the pool after NewGRPCClient, before any membership event
PoolStart ==
    /\ clientMap = [id \in ServerIDs |-> NoClient]
    /\ clients = [c \in ClientIds |-> NoClientRec]
    /\ nextClient = 1
    /\ lock = [c \in ClientIds |-> NoProc]
    /\ conns = [k \in ConnIds |-> "unused"]
    /\ pc = [p \in Procs |-> "idle"]
    /\ op = [p \in Procs |-> NoOp]
    /\ cl = [p \in Procs |-> NoClient]
    /\ timer = [p \in Procs |-> NoDeadline]
    /\ ret = [p \in Procs |-> NoResult]
    /\ sent = [p \in Procs |-> NoRequest]
    /\ lookup = [p \in Procs |-> NoLookup]
    /\ answer = [p \in Procs |-> NoResult]
    /\ addReturned = [id \in CoreIDs |-> FALSE]
    /\ addStored = [id \in CoreIDs |-> FALSE]
    /\ seen = NoServer

\* membership and Call: either connection mode, no binding storage
Init ==
    /\ PoolStart
    /\ DictStart
    /\ RegStart
    /\ NoDispatch
    /\ lazy \in BOOLEAN
    /\ hasBinding = FALSE
    /\ directory = CHOOSE d \in Directories : TRUE

\* the operation of p returns r
Finish(p, o, r) ==
    /\ pc' = [pc EXCEPT ![p] = "done"]
    /\ op' = [op EXCEPT ![p] = o]
    /\ ret' = [ret EXCEPT ![p] = r]

\* a RemoveServer(id) step ends "since the last RemoveServer(id)"
Removing(id) ==
    /\ addReturned' = [i \in CoreIDs |-> IF i = id THEN FALSE ELSE addReturned[i]]
    /\ addStored' = [i \in CoreIDs |-> IF i = id THEN FALSE ELSE addStored[i]]

\* an AddServer(id) returns, having stored a client or not
Adding(id, stored) ==
    /\ addReturned' = [i \in CoreIDs |-> IF i = id THEN TRUE ELSE addReturned[i]]
    /\ addStored' = [i \in CoreIDs |-> IF i = id /\ stored THEN TRUE ELSE addStored[i]]

\* a slip: AddServer returns when the eager connect fails, storing nothing
AddServerDropOnDialError(sv) ==
    LET hp == getServerHost(sv)
        host == hp[1]
        portKey == hp[2]
    IN  IF host = "" \/ sv.Metadata[portKey] = Missing
        THEN /\ Adding(sv.ID, FALSE)
             /\ UNCHANGED <<mapVars, fixedVars, heapVars, procVars, histVars>>
        ELSE /\ nextClient <= MaxClients
             /\ LET c == nextClient
                    address == Address(host, sv.Metadata[portKey])
                IN  \/ /\ lazy
                       /\ clients' = [clients EXCEPT ![c] = Client(address, NoConn, NoConn, FALSE)]
                       /\ nextClient' = c + 1
                       /\ clientMap' = Store(clientMap, sv.ID, c)
                       /\ UNCHANGED conns
                    \/ /\ ~lazy
                       /\ clients' = [clients EXCEPT ![c] = Client(address, NoConn, NoConn, FALSE)]
                       /\ nextClient' = c + 1
                       /\ UNCHANGED <<conns, clientMap>>
                    \/ /\ ~lazy
                       /\ FreeConns # {}
                       /\ clients' = [clients EXCEPT ![c] = Client(address, NewConn, NewConn, TRUE)]
                       /\ conns' = [conns EXCEPT ![NewConn] = "open"]
                       /\ nextClient' = c + 1
                       /\ clientMap' = Store(clientMap, sv.ID, c)
             /\ Adding(sv.ID, TRUE)
             /\ UNCHANGED <<fixedVars, lock, procVars, histVars>>

\* GRPCClient.AddServer, run by the discovery watcher.  The client is private
\* until Store publishes it, so the whole of AddServer is one step.
AddServer(sv) ==
    LET hp == getServerHost(sv)
        host == hp[1]
        portKey == hp[2]
    IN  IF host = "" \/ sv.Metadata[portKey] = Missing
        THEN /\ Adding(sv.ID, FALSE)
             /\ UNCHANGED <<mapVars, fixedVars, heapVars, procVars, histVars>>
        ELSE /\ nextClient <= MaxClients
             /\ LET c == nextClient
                    address == Address(host, sv.Metadata[portKey])
                IN  /\ \/ \* lazy, or grpc.Dial fails: the client stays disconnected
                          /\ clients' = [clients EXCEPT ![c] = Client(address, NoConn, NoConn, FALSE)]
                          /\ UNCHANGED conns
                       \/ \* client.connect() succeeds
                          /\ ~lazy
                          /\ FreeConns # {}
                          /\ clients' = [clients EXCEPT ![c] = Client(address, NewConn, NewConn, TRUE)]
                          /\ conns' = [conns EXCEPT ![NewConn] = "open"]
                    /\ nextClient' = c + 1
                    /\ clientMap' = Store(clientMap, sv.ID, c)
             /\ Adding(sv.ID, TRUE)
             /\ UNCHANGED <<fixedVars, lock, procVars, histVars>>

\* the operation's result has been taken: the goroutine is free again
Return(p) ==
    /\ pc[p] = "done"
    /\ pc' = [pc EXCEPT ![p] = "idle"]
    /\ op' = [op EXCEPT ![p] = NoOp]
    /\ cl' = [cl EXCEPT ![p] = NoClient]
    /\ ret' = [ret EXCEPT ![p] = NoResult]
    /\ sent' = [sent EXCEPT ![p] = NoRequest]
    /\ lookup' = [lookup EXCEPT ![p] = NoLookup]
    /\ answer' = [answer EXCEPT ![p] = NoResult]
    /\ UNCHANGED <<mapVars, fixedVars, heapVars, timer, addVars>>

\* GRPCClient.RemoveServer, line 268: gs.clientMap.Load(sv.ID)
RemoveServerLoad(p, id) ==
    /\ pc[p] = "idle"
    /\ LET c == Load(clientMap, id)
           o == Op("RemoveServer", id, "", "")
       IN  IF c = NoClient
           THEN /\ Finish(p, o, NoResult)
                /\ UNCHANGED cl
           ELSE /\ pc' = [pc EXCEPT ![p] = "rm_disconnect"]
                /\ op' = [op EXCEPT ![p] = o]
                /\ cl' = [cl EXCEPT ![p] = c]
                /\ UNCHANGED ret
    /\ Removing(id)
    /\ UNCHANGED <<mapVars, fixedVars, heapVars, timer, histVars>>

\* grpcClient.disconnect: the critical section, entered when the lock is free
disconnect(c) ==
    /\ lock[c] = NoProc
    /\ IF clients[c].connected
       THEN /\ conns' = [conns EXCEPT ![clients[c].conn] = "closed"]
            /\ clients' = [clients EXCEPT ![c].connected = FALSE]
       ELSE UNCHANGED <<conns, clients>>
    /\ UNCHANGED <<lock, nextClient>>

\* GRPCClient.RemoveServer, line 269: c.(*grpcClient).disconnect()
RemoveServerDisconnect(p) ==
    /\ pc[p] = "rm_disconnect"
    /\ disconnect(cl[p])
    /\ pc' = [pc EXCEPT ![p] = "rm_delete"]
    /\ Removing(op[p].id)
    /\ UNCHANGED <<mapVars, fixedVars, op, cl, timer, ret, histVars>>

\* sync.Map Delete
Delete(m, id) == [m EXCEPT ![id] = NoClient]

\* GRPCClient.RemoveServer, line 270: gs.clientMap.Delete(sv.ID)
RemoveServerDelete(p) ==
    /\ pc[p] = "rm_delete"
    /\ clientMap' = Delete(clientMap, op[p].id)
    /\ Finish(p, op[p], NoResult)
    /\ Removing(op[p].id)
    /\ UNCHANGED <<fixedVars, heapVars, cl, timer, histVars>>

\* a slip: the caller's context is passed on as it is
WithTimeoutParentOnly(parent, d) == parent

\* context.WithTimeout(parent, d): the earlier of the parent's deadline and d
WithTimeout(parent, d) ==
    IF parent = NoDeadline \/ d < parent THEN d ELSE parent

\* the operation of p found client c and goes on to c's RPC method with a
\* context of `deadline` ticks
Forward(p, o, c, deadline, lk) ==
    /\ pc' = [pc EXCEPT ![p] = "rpc_check"]
    /\ op' = [op EXCEPT ![p] = o]
    /\ cl' = [cl EXCEPT ![p] = c]
    /\ timer' = [timer EXCEPT ![p] = deadline]
    /\ lookup' = [lookup EXCEPT ![p] = lk]
    /\ UNCHANGED <<mapVars, fixedVars, heapVars, ret, sent, answer, addVars>>

\* the operation of p returns err before it reaches a peer client
Fail(p, o, err, lk) ==
    /\ Finish(p, o, Result(NilResponse, err))
    /\ lookup' = [lookup EXCEPT ![p] = lk]
    /\ UNCHANGED <<mapVars, fixedVars, heapVars, cl, timer, sent, answer, addVars>>

\* a slip: the request is built before the client is looked up
CallPrecheckBuildFirst(c, build) ==
    IF ~build THEN ErrBuildRequest
    ELSE IF c = NoClient THEN ErrNoConnectionToServer
    ELSE NilErr

\* GRPCClient.Call, lines 105-127: the error Call returns before it reaches the
\* transport, given the client it loaded and whether buildRequest succeeds
CallPrecheck(c, build) ==
    IF c = NoClient THEN ErrNoConnectionToServer
    ELSE IF ~build THEN ErrBuildRequest
    ELSE NilErr

\* GRPCClient.Call up to c.(*grpcClient).call(ctxT, &req)
CallStart(p, id, parent, build) ==
    /\ pc[p] = "idle"
    /\ LET c == Load(clientMap, id)
           o == Op("Call", id, "", "")
           e == CallPrecheck(c, build)
       IN  IF e # NilErr
           THEN Fail(p, o, e, NoLookup)
           ELSE Forward(p, o, c, WithTimeout(parent, ReqTimeout), NoLookup)

\* gs.bindingStorage.GetUserFrontendID(uid, typ)
GetUserFrontendID(uid, typ) ==
    LET b == directory[uid][typ] IN Lookup(uid, typ, b.id, b.err)

\* a slip: the nil check of gs.bindingStorage is left out
SendPushResolveNoNilCheck(userID, frontendSv) ==
    IF frontendSv.ID # ""
    THEN [id |-> frontendSv.ID, err |-> NilErr, lookup |-> NoLookup]
    ELSE LET lk == GetUserFrontendID(userID, frontendSv.Type)
         IN  [id |-> lk.id, err |-> lk.err, lookup |-> lk]

\* a slip: the directory is consulted although the caller named the frontend
SendPushResolveAlwaysLookup(userID, frontendSv) ==
    IF ~hasBinding
    THEN [id |-> "", err |-> ErrNoBindingStorageModule, lookup |-> NoLookup]
    ELSE LET lk == GetUserFrontendID(userID, frontendSv.Type)
         IN  [id |-> lk.id, err |-> lk.err, lookup |-> lk]

\* GRPCClient.SendPush, lines 213-225: the frontend id, the error and the
\* directory call made
SendPushResolve(userID, frontendSv) ==
    IF frontendSv.ID # ""
    THEN [id |-> frontendSv.ID, err |-> NilErr, lookup |-> NoLookup]
    ELSE IF ~hasBinding
    THEN [id |-> "", err |-> ErrNoBindingStorageModule, lookup |-> NoLookup]
    ELSE LET lk == GetUserFrontendID(userID, frontendSv.Type)
         IN  [id |-> lk.id, err |-> lk.err, lookup |-> lk]

\* GRPCClient.SendPush up to c.(*grpcClient).pushToUser(ctxT, push)
SendPushStart(p, userID, frontendSv) ==
    /\ pc[p] = "idle"
    /\ LET r == SendPushResolve(userID, frontendSv)
           c == Load(clientMap, r.id)
           o == Op("SendPush", frontendSv.ID, userID, frontendSv.Type)
       IN  IF r.err # NilErr
           THEN Fail(p, o, r.err, r.lookup)
           ELSE IF c = NoClient
           THEN Fail(p, o, ErrNoConnectionToServer, r.lookup)
           ELSE Forward(p, o, c, WithTimeout(NoDeadline, ReqTimeout), r.lookup)

\* a slip: the lookup's error is dropped, as BroadcastSessionBind drops it
SendKickResolveIgnoreErr(userID, serverType) ==
    IF ~hasBinding
    THEN [id |-> "", err |-> ErrNoBindingStorageModule, lookup |-> NoLookup]
    ELSE LET lk == GetUserFrontendID(userID, serverType)
         IN  [id |-> lk.id, err |-> NilErr, lookup |-> lk]

\* GRPCClient.SendKick, lines 189-199
SendKickResolve(userID, serverType) ==
    IF ~hasBinding
    THEN [id |-> "", err |-> ErrNoBindingStorageModule, lookup |-> NoLookup]
    ELSE LET lk == GetUserFrontendID(userID, serverType)
         IN  [id |-> lk.id, err |-> lk.err, lookup |-> lk]

\* GRPCClient.SendKick up to c.(*grpcClient).sendKick(ctxT, kick)
SendKickStart(p, userID, serverType) ==
    /\ pc[p] = "idle"
    /\ LET r == SendKickResolve(userID, serverType)
           c == Load(clientMap, r.id)
           o == Op("SendKick", "", userID, serverType)
       IN  IF r.err # NilErr
           THEN Fail(p, o, r.err, r.lookup)
           ELSE IF c = NoClient
           THEN Fail(p, o, ErrNoConnectionToServer, r.lookup)
           ELSE Forward(p, o, c, WithTimeout(NoDeadline, ReqTimeout), r.lookup)

\* a change: the lookup's error is returned, as SendKick returns it
BroadcastResolveReturnErr(uid) ==
    IF ~hasBinding
    THEN [id |-> "", err |-> ErrNoBindingStorageModule, lookup |-> NoLookup]
    ELSE LET lk == GetUserFrontendID(uid, LocalServer.Type)
         IN  [id |-> lk.id, err |-> lk.err, lookup |-> lk]

\* GRPCClient.BroadcastSessionBind, lines 165-170: fid, _ := ...
BroadcastResolve(uid) ==
    IF ~hasBinding
    THEN [id |-> "", err |-> ErrNoBindingStorageModule, lookup |-> NoLookup]
    ELSE LET lk == GetUserFrontendID(uid, LocalServer.Type)
         IN  [id |-> lk.id, err |-> NilErr, lookup |-> lk]

\* GRPCClient.BroadcastSessionBind up to c.(*grpcClient).sessionBindRemote
BroadcastSessionBindStart(p, uid) ==
    /\ pc[p] = "idle"
    /\ LET r == BroadcastResolve(uid)
           c == Load(clientMap, r.id)
           o == Op("BroadcastSessionBind", "", uid, LocalServer.Type)
       IN  IF r.err # NilErr
           THEN Fail(p, o, r.err, r.lookup)
           ELSE IF r.id = "" \/ c = NoClient
           THEN Fail(p, o, NilErr, r.lookup)
           ELSE Forward(p, o, c, WithTimeout(NoDeadline, ReqTimeout), r.lookup)

\* the transport method each operation's peer-client method calls
Method(name) ==
    CASE name = "Call" -> "Call"
      [] name = "SendPush" -> "PushToUser"
      [] name = "SendKick" -> "KickUser"
      [] name = "BroadcastSessionBind" -> "SessionBindRemote"
      [] OTHER -> "none"

\* the unlocked read of gc.connected at the head of call, pushToUser,
\* sessionBindRemote and sendKick races with the writes connect and disconnect
\* make under the lock: it yields the field's value or one it held before
\* (it has been TRUE only if cli was ever set)
RacyConnected(c) ==
    {clients[c].connected} \cup (IF clients[c].cli # NoConn THEN BOOLEAN ELSE {})

\* grpcClient.call / pushToUser / sessionBindRemote / sendKick: if !gc.connected
RpcCheck(p) ==
    /\ pc[p] = "rpc_check"
    /\ \E v \in RacyConnected(cl[p]) :
         pc' = [pc EXCEPT ![p] = IF v THEN "rpc_issue" ELSE "conn_lock"]
    /\ UNCHANGED <<mapVars, fixedVars, heapVars, op, cl, timer, ret, histVars, addVars>>

CanLockAlways(p, c) == TRUE


\* the lock is free for p to take
CanLock(p, c) == lock[c] = NoProc

\* grpcClient.connect, lines 319-323: Lock, if gc.connected return nil
ConnectLock(p) ==
    /\ pc[p] = "conn_lock"
    /\ CanLock(p, cl[p])
    /\ IF clients[cl[p]].connected
       THEN /\ pc' = [pc EXCEPT ![p] = "rpc_issue"]
            /\ UNCHANGED lock
       ELSE /\ pc' = [pc EXCEPT ![p] = "conn_dial"]
            /\ lock' = [lock EXCEPT ![cl[p]] = p]
    /\ UNCHANGED <<mapVars, fixedVars, clients, nextClient, conns, op, cl, timer, ret, histVars, addVars>>

\* an RPC operation of p returns r: its deferred done() cancels the context
FinishRpc(p, r) ==
    /\ Finish(p, op[p], r)
    /\ timer' = [timer EXCEPT ![p] = NoDeadline]

\* grpcClient.connect, lines 325-338: grpc.Dial, set cli, conn, connected; Unlock
ConnectDial(p) ==
    /\ pc[p] = "conn_dial"
    /\ lock' = [lock EXCEPT ![cl[p]] = NoProc]
    /\ \/ \* grpc.Dial fails: the RPC method returns the error
          /\ FinishRpc(p, Result(NilResponse, ErrDial))
          /\ UNCHANGED <<clients, conns>>
       \/ /\ FreeConns # {}
          /\ clients' = [clients EXCEPT ![cl[p]].cli = NewConn,
                                        ![cl[p]].conn = NewConn,
                                        ![cl[p]].connected = TRUE]
          /\ conns' = [conns EXCEPT ![NewConn] = "open"]
          /\ pc' = [pc EXCEPT ![p] = "rpc_issue"]
          /\ UNCHANGED <<op, timer, ret>>
    /\ UNCHANGED <<mapVars, fixedVars, nextClient, cl, histVars, addVars>>

\* gc.cli.Call / PushToUser / SessionBindRemote / KickUser (ctx, req): the
\* request goes out on the connection gc.cli wraps, under the context's deadline
RpcIssue(p) ==
    /\ pc[p] = "rpc_issue"
    /\ sent' = [sent EXCEPT ![p] =
                  Request(Method(op[p].name), cl[p], clients[cl[p]].cli, timer[p])]
    /\ pc' = [pc EXCEPT ![p] = "rpc_wait"]
    /\ UNCHANGED <<mapVars, fixedVars, heapVars, op, cl, timer, ret, lookup, answer, addVars>>

\* what the transport may return for a request that reached the peer
TransportAnswers(method) ==
    IF method = "Call"
    THEN {Result(r, NilErr) : r \in PeerResponses} \cup {Result(NilResponse, ErrUnavailable)}
    ELSE {Result(Response("ack", NoPErr), NilErr), Result(NilResponse, ErrUnavailable)}

\* a slip: an empty code is passed on as it is
CallResultNoDefault(a) ==
    IF a.err # NilErr
    THEN Result(NilResponse, a.err)
    ELSE IF a.resp.error.present
    THEN Result(NilResponse,
                Err("pitaya", a.resp.error.code, a.resp.error.msg, a.resp.error.metadata))
    ELSE Result(a.resp, NilErr)

\* GRPCClient.Call, lines 141-155: the transport's (res, err) to Call's
CallResult(a) ==
    IF a.err # NilErr
    THEN Result(NilResponse, a.err)
    ELSE IF a.resp.error.present
    THEN Result(NilResponse,
                Err("pitaya",
                    IF a.resp.error.code = "" THEN ErrUnknownCode ELSE a.resp.error.code,
                    a.resp.error.msg,
                    a.resp.error.metadata))
    ELSE Result(a.resp, NilErr)

\* pushToUser / sessionBindRemote / sendKick: _, err := gc.cli.X(ctx, req); return err
ErrOnly(a) == Result(NilResponse, a.err)

\* the operation's result from the transport's
OpResult(name, a) == IF name = "Call" THEN CallResult(a) ELSE ErrOnly(a)

\* the transport returns a to p
Returned(p, a) ==
    /\ answer' = [answer EXCEPT ![p] = a]
    /\ FinishRpc(p, OpResult(op[p].name, a))
    /\ UNCHANGED <<mapVars, fixedVars, heapVars, cl, sent, lookup, addVars>>

\* the peer answers (or is unavailable) before the deadline
RpcAnswer(p) ==
    /\ pc[p] = "rpc_wait"
    /\ conns[sent[p].conn] = "open"
    /\ timer[p] # 0
    /\ \E a \in TransportAnswers(sent[p].method) : Returned(p, a)

\* the connection was closed (disconnect): the transport cancels the request
RpcClosed(p) ==
    /\ pc[p] = "rpc_wait"
    /\ conns[sent[p].conn] = "closed"
    /\ Returned(p, Result(NilResponse, ErrCanceled))

\* the context's deadline has passed: the transport gives the request up
RpcDeadline(p) ==
    /\ pc[p] = "rpc_wait"
    /\ timer[p] = 0
    /\ Returned(p, Result(NilResponse, ErrDeadlineExceeded))

\* time passes for every context with time left
Tick ==
    /\ \E p \in Procs : timer[p] > 0
    /\ timer' = [p \in Procs |-> IF timer[p] > 0 THEN timer[p] - 1 ELSE timer[p]]
    /\ UNCHANGED <<mapVars, fixedVars, heapVars, pc, op, cl, ret, histVars, addVars>>

FrontendServers == {Server(id, t, Meta(Missing, Missing, Missing, Missing, Missing)) :
                      id \in ServerIDs \cup {""}, t \in ServerTypes}

\* the steps of a peer client's RPC method and of the transport under it
RpcSteps ==
    \/ \E p \in Procs : RpcCheck(p)
    \/ \E p \in Procs : ConnectLock(p)
    \/ \E p \in Procs : ConnectDial(p)
    \/ \E p \in Procs : RpcIssue(p)
    \/ \E p \in Procs : RpcAnswer(p)
    \/ \E p \in Procs : RpcClosed(p)
    \/ \E p \in Procs : RpcDeadline(p)
    \/ \E p \in Procs : Return(p)
    \/ Tick

Next ==
    \/ \E sv \in DiscoveredServers : sv.ID \in CoreIDs /\ AddServer(sv)
    \/ \E p \in Procs : \E id \in CoreIDs : RemoveServerLoad(p, id)
    \/ \E p \in Procs : RemoveServerDisconnect(p)
    \/ \E p \in Procs : RemoveServerDelete(p)
    \/ \E p \in Procs : \E id \in CoreIDs : \E parent \in ParentDeadlines :
          \E build \in BOOLEAN : CallStart(p, id, parent, build)
    \/ RpcSteps

Spec == Init /\ [][Next]_vars

\* the four forwarding operations on goroutine 1 against membership changes:
\* with or without binding storage, over every directory, eager connections
\* (an eager connect that fails leaves the client as a lazy AddServer does)
PoolInit ==
    /\ PoolStart
    /\ DictStart
    /\ RegStart
    /\ NoDispatch
    /\ lazy = FALSE
    /\ \/ hasBinding = FALSE /\ directory = CHOOSE d \in Directories : TRUE
       \/ hasBinding = TRUE /\ directory \in Directories

\* the servers discovered there: a usable A, a usable B, a B without its port
PoolServers == {sv \in DiscoveredServers : sv.ID = "B" \/ getServerHost(sv)[1] # ""}

PoolNext ==
    \/ \E sv \in PoolServers : AddServer(sv)
    \/ \E id \in ServerIDs : RemoveServerLoad(2, id)
    \/ \E p \in Procs : RemoveServerDisconnect(p)
    \/ \E p \in Procs : RemoveServerDelete(p)
    \/ \E id \in ServerIDs : \E parent \in ParentDeadlines :
          \E build \in BOOLEAN : CallStart(1, id, parent, build)
    \/ \E u \in Users : \E sv \in FrontendServers : SendPushStart(1, u, sv)
    \/ \E u \in Users : \E t \in ServerTypes : SendKickStart(1, u, t)
    \/ \E u \in Users : BroadcastSessionBindStart(1, u)
    \/ RpcSteps

PoolSpec == PoolInit /\ [][PoolNext]_vars

\* time passes, and the transport gives a request up at its deadline
Fairness == WF_vars(Tick) /\ \A p \in Procs : WF_vars(RpcDeadline(p))
FairPoolSpec == PoolSpec /\ Fairness

\* either connection mode against the forwarding operations: binding storage
\* with one directory (chat users on A, game users on B)
ModeDirectory == [u \in Users |-> ("chat" :> Binding("A", NilErr)) @@ ("game" :> Binding("B", NilErr))]
ModeInit ==
    /\ PoolStart
    /\ DictStart
    /\ RegStart
    /\ NoDispatch
    /\ lazy \in BOOLEAN
    /\ hasBinding = TRUE
    /\ directory = ModeDirectory

ModeSpec == ModeInit /\ [][PoolNext]_vars


\* the discovery watcher reports a server
Discover(sv) ==
    /\ seen' = sv
    /\ UNCHANGED <<mapVars, cfgVars, heapVars, procVars, histVars, addVars, dispVars, startVars>>

\* the watcher hands the reported server to AddServer
AddReported ==
    /\ seen # NoServer
    /\ AddServer(seen)

\* the watcher against AddServer, over every shape of metadata
WatchNext ==
    \/ \E sv \in ReportedServers : Discover(sv)
    \/ AddReported

WatchSpec == Init /\ [][WatchNext]_vars


\* ------------------------------------------------------ the dispatch steps
\* return nil, err
DispatchFail(err) ==
    /\ dpc' = "done"
    /\ dout' = Out(Nil, err)

\* processHandlerMessage up to the before chain
DispatchStart(rt, msgTypeIface, remote, data) ==
    /\ dpc = "idle"
    /\ din' = Input(rt, msgTypeIface, remote, data)
    /\ LET h == getHandler(rt)
           mt == getMsgType(msgTypeIface)
       IN  IF h.err # NilErr
               THEN /\ DispatchFail(NewError(h.err, ErrNotFoundCode))
                    /\ UNCHANGED <<dh, dtype, darg, dlog>>
           ELSE IF mt.err # NilErr
               THEN /\ DispatchFail(NewError(mt.err, ErrInternalCode))
                    /\ dh' = h.h
                    /\ UNCHANGED <<dtype, darg, dlog>>
           ELSE LET val == ValidateMessageType(handlers[h.h], mt.t)
                    arg == unmarshalHandlerArg(handlers[h.h], data)
                IN  /\ dh' = h.h
                    /\ dtype' = mt.t
                    /\ IF val.err # NilErr /\ val.exit
                           THEN /\ DispatchFail(NewError(val.err, ErrBadRequestCode))
                                /\ UNCHANGED <<darg, dlog>>
                       ELSE /\ dlog' = IF arg.called THEN <<Ev("unmarshal", 0, Bytes(data), NilErr, arg.v, arg.err)>> ELSE <<>>
                            /\ IF arg.err # NilErr
                                   THEN /\ DispatchFail(NewError(arg.err, ErrBadRequestCode))
                                        /\ UNCHANGED darg
                                   ELSE /\ darg' = arg.v
                                        /\ dpc' = IF nBefore > 0 THEN "before" ELSE "call"
                                        /\ UNCHANGED dout
    /\ dhook' = 1
    /\ UNCHANGED <<poolVars, startVars, hookVars, dresp, derr>>

DispatchBeforeIgnoreError ==
    /\ dpc = "before"
    /\ \E r \in BeforeOutcomes(darg) :
          /\ dlog' = Append(dlog, Ev("before", dhook, darg, NilErr, r.v, r.err))
          /\ IF r.err # NilErr /\ dhook = nBefore
                 THEN /\ DispatchFail(r.err)
                      /\ UNCHANGED <<darg, dhook>>
                 ELSE /\ darg' = r.v
                      /\ dpc' = IF dhook < nBefore THEN "before" ELSE "call"
                      /\ dhook' = IF dhook < nBefore THEN dhook + 1 ELSE 1
                      /\ UNCHANGED dout
    /\ UNCHANGED <<poolVars, startVars, hookVars, din, dh, dtype, dresp, derr>>

DispatchBeforeFirstOnly ==
    /\ dpc = "before"
    /\ \E r \in BeforeOutcomes(darg) :
          /\ dlog' = Append(dlog, Ev("before", dhook, darg, NilErr, r.v, r.err))
          /\ IF r.err # NilErr
                 THEN /\ DispatchFail(r.err)
                      /\ UNCHANGED <<darg, dhook>>
                 ELSE /\ darg' = r.v
                      /\ dpc' = "call"
                      /\ dhook' = 1
                      /\ UNCHANGED dout
    /\ UNCHANGED <<poolVars, startVars, hookVars, din, dh, dtype, dresp, derr>>


\* executeBeforePipeline: one hook of the chain
DispatchBefore ==
    /\ dpc = "before"
    /\ \E r \in BeforeOutcomes(darg) :
          /\ dlog' = Append(dlog, Ev("before", dhook, darg, NilErr, r.v, r.err))
          /\ IF r.err # NilErr
                 THEN /\ DispatchFail(r.err)
                      /\ UNCHANGED <<darg, dhook>>
                 ELSE /\ darg' = r.v
                      /\ dpc' = IF dhook < nBefore THEN "before" ELSE "call"
                      /\ dhook' = IF dhook < nBefore THEN dhook + 1 ELSE 1
                      /\ UNCHANGED dout
    /\ UNCHANGED <<poolVars, startVars, hookVars, din, dh, dtype, dresp, derr>>

\* processHandlerMessage once the after chain has returned (resp, err)
AfterChain(resp, err) ==
    IF err # NilErr THEN DispatchFail(err)
                    ELSE dpc' = "serialize" /\ UNCHANGED dout

DispatchCallNoAck ==
    /\ dpc = "call"
    /\ \E r \in PcallOutcomes :
          /\ dresp' = r.v
          /\ derr' = r.err
          /\ IF nAfter > 0 THEN dpc' = "after" /\ UNCHANGED dout
                           ELSE AfterChain(r.v, r.err)
          /\ dlog' = Append(dlog, Ev("handler", 0, darg, NilErr, r.v, r.err))
    /\ dhook' = 1
    /\ UNCHANGED <<poolVars, startVars, hookVars, din, dh, dtype, darg>>


\* util.Pcall, and the ack that answers a remote notify
DispatchCall ==
    /\ dpc = "call"
    /\ \E r \in PcallOutcomes :
          LET resp == IF din.remote /\ dtype = TypeNotify THEN Bytes("ack") ELSE r.v
          IN  /\ dresp' = resp
              /\ derr' = r.err
              /\ IF nAfter > 0 THEN dpc' = "after" /\ UNCHANGED dout
                               ELSE AfterChain(resp, r.err)
              /\ dlog' = Append(dlog, Ev("handler", 0, darg, NilErr, r.v, r.err))
    /\ dhook' = 1
    /\ UNCHANGED <<poolVars, startVars, hookVars, din, dh, dtype, darg>>

DispatchAfterStopOnError ==
    /\ dpc = "after"
    /\ \E r \in AfterOutcomes(dresp, derr) :
          /\ dresp' = r.v
          /\ derr' = r.err
          /\ IF dhook < nAfter /\ r.err = NilErr
                 THEN dpc' = "after" /\ dhook' = dhook + 1 /\ UNCHANGED dout
                 ELSE AfterChain(r.v, r.err) /\ dhook' = 1
          /\ dlog' = Append(dlog, Ev("after", dhook, dresp, derr, r.v, r.err))
    /\ UNCHANGED <<poolVars, startVars, hookVars, din, dh, dtype, darg>>


\* executeAfterPipeline: one hook of the chain
DispatchAfter ==
    /\ dpc = "after"
    /\ \E r \in AfterOutcomes(dresp, derr) :
          /\ dresp' = r.v
          /\ derr' = r.err
          /\ IF dhook < nAfter
                 THEN dpc' = "after" /\ dhook' = dhook + 1 /\ UNCHANGED dout
                 ELSE AfterChain(r.v, r.err) /\ dhook' = 1
          /\ dlog' = Append(dlog, Ev("after", dhook, dresp, derr, r.v, r.err))
    /\ UNCHANGED <<poolVars, startVars, hookVars, din, dh, dtype, darg>>

\* serializeReturn and the return
DispatchSerialize ==
    /\ dpc = "serialize"
    /\ \E r \in serializeReturn(dresp) :
          /\ dpc' = "done"
          /\ dout' = IF r.err # NilErr THEN Out(Nil, r.err) ELSE Out(r.res, NilErr)
          /\ dlog' = Append(dlog, Ev("serialize", 0, dresp, NilErr, r.res, r.err))
    /\ UNCHANGED <<poolVars, startVars, hookVars, din, dh, dtype, darg, dresp, derr, dhook>>

\* the caller has the result
DispatchReturn ==
    /\ dpc = "done"
    /\ dpc' = "idle"
    /\ din' = NoInput
    /\ dh' = ""
    /\ dtype' = TypeRequest
    /\ darg' = Nil
    /\ dresp' = Nil
    /\ derr' = NilErr
    /\ dhook' = 0
    /\ dlog' = <<>>
    /\ dout' = NoOut
    /\ UNCHANGED <<poolVars, startVars, hookVars>>

\* the dispatch alone, over every length of the two hook chains
DispatchInit ==
    /\ PoolStart
    /\ DictStart
    /\ RegStart
    /\ lazy = FALSE
    /\ hasBinding = FALSE
    /\ directory = CHOOSE d \in Directories : TRUE
    /\ nBefore \in 0..MaxHooks
    /\ nAfter \in 0..MaxHooks
    /\ DispatchIdle

DispatchNext ==
    \/ \E rt \in Routes : \E t \in MsgTypeIfaces : \E remote \in BOOLEAN :
          \E data \in Payloads : DispatchStart(rt, t, remote, data)
    \/ DispatchBefore
    \/ DispatchCall
    \/ DispatchAfter
    \/ DispatchSerialize
    \/ DispatchReturn

DispatchSpec == DispatchInit /\ [][DispatchNext]_vars

\* a slip: only the route is checked for duplication, not the code
RECURSIVE InstallNoCodeCheck(_, _, _)
InstallNoCodeCheck(r, c, todo) ==
    IF todo = <<>> THEN Tables(r, c, NilErr)
    ELSE LET route == TrimSpace(Head(todo).route)
             code == Head(todo).code
         IN  IF route \in DOMAIN r THEN Tables(r, c, ErrDuplicated)
             ELSE InstallNoCodeCheck(Put(r, route, code), Put(c, code, route), Tail(todo))


\* ---------------------------------------------------- the dictionary steps
\* the for loop of SetDictionary over the entries left, in the order of range
RECURSIVE Install(_, _, _)
Install(r, c, todo) ==
    IF todo = <<>> THEN Tables(r, c, NilErr)
    ELSE LET route == TrimSpace(Head(todo).route)
             code == Head(todo).code
         IN  IF route \in DOMAIN r THEN Tables(r, c, ErrDuplicated)
             ELSE IF code \in DOMAIN c THEN Tables(r, c, ErrDuplicated)
             ELSE Install(Put(r, route, code), Put(c, code, route), Tail(todo))

SetDictionary(dict, order) ==
    /\ dpc = "idle"
    /\ dictArg' = dict
    /\ dictOld' = Tables(routes, codes, NilErr)
    /\ LET done == IF dict.nil THEN Tables(routes, codes, NilErr)
                               ELSE Install(routes, codes, order)
       IN  /\ routes' = done.routes
           /\ codes' = done.codes
           /\ dictErr' = done.err
    /\ UNCHANGED <<poolVars, dispVars, regVars>>

\* the dictionary alone
DictInit ==
    /\ PoolStart
    /\ DictStart
    /\ RegStart
    /\ NoDispatch
    /\ lazy = FALSE
    /\ hasBinding = FALSE
    /\ directory = CHOOSE d \in Directories : TRUE

DictNext ==
    \E dict \in Dicts : \E order \in Orders(dict.entries) : SetDictionary(dict, order)

DictSpec == DictInit /\ [][DictNext]_vars

\* ------------------------------------------------------ the registry steps
NewService(comp, name) ==
    /\ dpc = "idle"
    /\ svc' = Service(comp, IF name # "" THEN name ELSE comp.typeName, EmptyMap, EmptyMap)
    /\ regRet' = NoExtracted
    /\ UNCHANGED <<poolVars, dispVars, dictVars>>

ExtractHandlerNoReceiver ==
    /\ svc # NoService
    /\ LET typeName == svc.comp.typeName
           found == suitableHandlerMethods(svc.comp, TypeOf(svc.comp))
           method == suitableHandlerMethods(svc.comp, PtrTo(TypeOf(svc.comp)))
           str == "type " \o svc.Name \o " has no exported methods of handler type"
       IN  IF typeName = ""
               THEN /\ regRet' = Extracted("ExtractHandler", ErrNew("no service name for type"))
                    /\ UNCHANGED svc
           ELSE IF ~isExported(typeName)
               THEN /\ regRet' = Extracted("ExtractHandler",
                                           ErrNew("type " \o typeName \o " is not exported"))
                    /\ UNCHANGED svc
           ELSE IF DOMAIN found = {}
               THEN /\ svc' = [svc EXCEPT !.Handlers = found]
                    /\ regRet' = Extracted("ExtractHandler",
                          ErrNew(IF DOMAIN method # {} THEN str \o Hint ELSE str))
           ELSE /\ svc' = [svc EXCEPT !.Handlers = found]
                /\ regRet' = Extracted("ExtractHandler", NilErr)
    /\ UNCHANGED <<poolVars, dispVars, dictVars>>

ExtractHandler ==
    /\ svc # NoService
    /\ LET typeName == svc.comp.typeName
           found == suitableHandlerMethods(svc.comp, TypeOf(svc.comp))
           method == suitableHandlerMethods(svc.comp, PtrTo(TypeOf(svc.comp)))
           str == "type " \o svc.Name \o " has no exported methods of handler type"
       IN  IF typeName = ""
               THEN /\ regRet' = Extracted("ExtractHandler", ErrNew("no service name for type"))
                    /\ UNCHANGED svc
           ELSE IF ~isExported(typeName)
               THEN /\ regRet' = Extracted("ExtractHandler",
                                           ErrNew("type " \o typeName \o " is not exported"))
                    /\ UNCHANGED svc
           ELSE IF DOMAIN found = {}
               THEN /\ svc' = [svc EXCEPT !.Handlers = found]
                    /\ regRet' = Extracted("ExtractHandler",
                          ErrNew(IF DOMAIN method # {} THEN str \o Hint ELSE str))
           ELSE /\ svc' = [svc EXCEPT !.Handlers = [n \in DOMAIN found |-> Receiver(svc.comp)]]
                /\ regRet' = Extracted("ExtractHandler", NilErr)
    /\ UNCHANGED <<poolVars, dispVars, dictVars>>

ExtractRemote ==
    /\ svc # NoService
    /\ LET typeName == svc.comp.typeName
           found == suitableRemoteMethods(svc.comp, TypeOf(svc.comp))
           method == suitableRemoteMethods(svc.comp, PtrTo(TypeOf(svc.comp)))
           str == "type " \o svc.Name \o " has no exported methods of remote type"
       IN  IF typeName = ""
               THEN /\ regRet' = Extracted("ExtractRemote", ErrNew("no service name for type"))
                    /\ UNCHANGED svc
           ELSE IF ~isExported(typeName)
               THEN /\ regRet' = Extracted("ExtractRemote",
                                           ErrNew("type " \o typeName \o " is not exported"))
                    /\ UNCHANGED svc
           ELSE IF DOMAIN found = {}
               THEN /\ svc' = [svc EXCEPT !.Remotes = found]
                    /\ regRet' = Extracted("ExtractRemote",
                          ErrNew(IF DOMAIN method # {} THEN str \o Hint ELSE str))
           ELSE /\ svc' = [svc EXCEPT !.Remotes = [n \in DOMAIN found |-> Receiver(svc.comp)]]
                /\ regRet' = Extracted("ExtractRemote", NilErr)
    /\ UNCHANGED <<poolVars, dispVars, dictVars>>

\* the registry alone
RegInit == DictInit

RegNext ==
    \/ \E comp \in Comps : \E name \in OptionNames : NewService(comp, name)
    \/ ExtractHandler
    \/ ExtractRemote

RegSpec == RegInit /\ [][RegNext]_vars

\* ------------------------------------------------------------ the claims

RpcPcs == {"rpc_check", "conn_lock", "conn_dial", "rpc_issue", "rpc_wait"}
\* p starts operation `name` in this step
Starts(p, name) == pc[p] = "idle" /\ op'[p].name = name
\* the map's entry for id before the step
Entry(id) == IF id \in ServerIDs THEN clientMap[id] ELSE NoClient
\* after the step p has returned err, having sent nothing
FailedWith(p, err) ==
    /\ pc'[p] = "done"
    /\ ret'[p] = Result(NilResponse, err)
    /\ sent'[p] = NoRequest
\* p has returned err, having sent nothing
HasFailedWith(p, err) ==
    /\ pc[p] = "done"
    /\ ret[p] = Result(NilResponse, err)
    /\ sent[p] = NoRequest
\* the transport has answered p
Answered(p) == pc[p] = "done" /\ answer[p] # NoResult

\* C1: a Call whose target id has no entry in the client map when it is looked
\* up returns (nil, ErrNoConnectionToServer) at once and sends no request.
C1_CallWithoutEntry ==
    [][\A p \in Procs :
         (Starts(p, "Call") /\ Entry(op'[p].id) = NoClient)
         => FailedWith(p, Sentinel("ErrNoConnectionToServer"))]_vars

\* a Call has failed so after a RemoveServer that took the entry away
C1_Witness ==
    \E p, q \in Procs :
        /\ op[p].name = "Call"
        /\ HasFailedWith(p, Sentinel("ErrNoConnectionToServer"))
        /\ pc[q] = "done" /\ op[q].name = "RemoveServer" /\ op[q].id = op[p].id
        /\ cl[q] # NoClient
        /\ clientMap[op[p].id] = NoClient

C3_RemoveServerAtomic ==
    [][/\ \A p \in Procs :
            (pc[p] = "idle" /\ pc'[p] = "rpc_check")
            => ~(\E q \in Procs : pc[q] = "rm_delete" /\ cl[q] = cl'[p])
       /\ \A q \in Procs :
            (pc[q] = "rm_delete" /\ pc'[q] = "done")
            => clientMap[op[q].id] \in {cl[q], NoClient}]_vars

\* the forwarding pattern of SendPush and SendKick, for operation `name` and
\* transport method `method`: with the lookup's error returned
ResolvedId(p) == IF op[p].id # "" THEN op[p].id ELSE lookup[p].id
LookupOf(p, typ) ==
    Lookup(op[p].uid, typ, directory[op[p].uid][typ].id, directory[op[p].uid][typ].err)
SentOn(p, method) ==
    sent[p] # NoRequest => sent[p].method = method /\ sent[p].client = cl[p]
\* the step that resolves to id loads the client stored under it, or fails
LoadsOrFails(p, id, err) ==
    IF Entry(id) = NoClient
    THEN FailedWith(p, err)
    ELSE pc'[p] = "rpc_check" /\ cl'[p] = Entry(id) /\ sent'[p] = NoRequest

\* C4: SendPush with an empty frontend id and no binding storage returns
\* ErrNoBindingStorageModule and sends no PushToUser.
C4_SendPushNoBinding ==
    \A p \in Procs :
        (op[p].name = "SendPush" /\ op[p].id = "" /\ ~hasBinding)
        => /\ HasFailedWith(p, Sentinel("ErrNoBindingStorageModule"))
           /\ lookup[p] = NoLookup

\* SendPush has failed so while a peer client was there to push on
C4_Witness ==
    \E p \in Procs :
        /\ op[p].name = "SendPush" /\ op[p].id = "" /\ ~hasBinding
        /\ pc[p] = "done"
        /\ \E id \in ServerIDs : clientMap[id] # NoClient

\* C5: SendPush with a frontend id uses it and makes no directory call; without
\* one it uses the id GetUserFrontendID(userID, frontendSv.Type) returns, and
\* returns the directory's error.  PushToUser goes out on the client stored
\* under that id; no client there: ErrNoConnectionToServer.
C5_SendPushResolves ==
    /\ [](\A p \in Procs : op[p].name = "SendPush" =>
            /\ op[p].id # "" => lookup[p] = NoLookup
            /\ (op[p].id = "" /\ hasBinding) =>
                 /\ lookup[p] = LookupOf(p, op[p].typ)
                 /\ lookup[p].err # NilErr => HasFailedWith(p, lookup[p].err)
            /\ SentOn(p, "PushToUser"))
    /\ [][\A p \in Procs :
            (Starts(p, "SendPush")
             /\ (op'[p].id # "" \/ (hasBinding /\ lookup'[p].err = NilErr)))
            => LoadsOrFails(p, ResolvedId(p)', Sentinel("ErrNoConnectionToServer"))]_vars

\* a push went out on the client stored under the id the directory returned,
\* while another id had another client
C5_Witness ==
    \E p \in Procs :
        /\ pc[p] = "done" /\ op[p].name = "SendPush" /\ op[p].id = ""
        /\ lookup[p].id \in ServerIDs
        /\ sent[p].method = "PushToUser"
        /\ sent[p].client = clientMap[lookup[p].id]
        /\ \E id \in ServerIDs : clientMap[id] \notin {NoClient, sent[p].client}
        /\ ret[p].err = NilErr

\* C6: SendKick without binding storage returns ErrNoBindingStorageModule; a
\* failed GetUserFrontendID(userID, serverType) is returned and no peer is
\* contacted; otherwise KickUser goes out on the client stored under the id,
\* and no client there yields ErrNoConnectionToServer.
C6_SendKickResolves ==
    /\ [](\A p \in Procs : op[p].name = "SendKick" =>
            /\ ~hasBinding =>
                 HasFailedWith(p, Sentinel("ErrNoBindingStorageModule")) /\ lookup[p] = NoLookup
            /\ hasBinding =>
                 /\ lookup[p] = LookupOf(p, op[p].typ)
                 /\ lookup[p].err # NilErr => HasFailedWith(p, lookup[p].err)
            /\ SentOn(p, "KickUser"))
    /\ [][\A p \in Procs :
            (Starts(p, "SendKick") /\ hasBinding /\ lookup'[p].err = NilErr)
            => LoadsOrFails(p, lookup'[p].id, Sentinel("ErrNoConnectionToServer"))]_vars

\* a kick has failed on the directory's error while the peer it names was there
C6_Witness ==
    \E p \in Procs :
        /\ pc[p] = "done" /\ op[p].name = "SendKick"
        /\ lookup[p].err # NilErr /\ ret[p].err = lookup[p].err
        /\ lookup[p].id \in ServerIDs /\ clientMap[lookup[p].id] # NoClient

\* C7 as stated: BroadcastSessionBind follows the pattern of SendKick: the
\* lookup's error is returned, and no peer client under the resolved id
\* yields ErrNoConnectionToServer.
C7_BroadcastFollowsPattern ==
    /\ [](\A p \in Procs : (op[p].name = "BroadcastSessionBind" /\ hasBinding) =>
            /\ lookup[p] = LookupOf(p, LocalServer.Type)
            /\ lookup[p].err # NilErr => HasFailedWith(p, lookup[p].err)
            /\ SentOn(p, "SessionBindRemote"))
    /\ [][\A p \in Procs :
            (Starts(p, "BroadcastSessionBind") /\ hasBinding /\ lookup'[p].err = NilErr)
            => LoadsOrFails(p, lookup'[p].id, Sentinel("ErrNoConnectionToServer"))]_vars

\* C7 amended: BroadcastSessionBind without binding storage returns
\* ErrNoBindingStorageModule; otherwise it asks GetUserFrontendID(uid,
\* gs.server.Type) and drops the lookup's error; when the id returned is not
\* empty and a peer client is stored under it, SessionBindRemote goes out on
\* that client and its error is returned; when the id is empty or no client is
\* stored under it, it returns nil and sends nothing.
C7_BroadcastBestEffort ==
    /\ [](\A p \in Procs : op[p].name = "BroadcastSessionBind" =>
            /\ ~hasBinding =>
                 HasFailedWith(p, Sentinel("ErrNoBindingStorageModule")) /\ lookup[p] = NoLookup
            /\ hasBinding => lookup[p] = LookupOf(p, LocalServer.Type)
            /\ SentOn(p, "SessionBindRemote")
            /\ Answered(p) => ret[p] = Result(NilResponse, answer[p].err))
    /\ [][\A p \in Procs :
            (Starts(p, "BroadcastSessionBind") /\ hasBinding)
            => IF lookup'[p].id = ""
               THEN FailedWith(p, NilErr)
               ELSE LoadsOrFails(p, lookup'[p].id, NilErr)]_vars

\* a bind went nowhere and returned nil: the lookup failed, or no peer client
\* was stored under the id
C7_Witness ==
    \E p \in Procs :
        /\ op[p].name = "BroadcastSessionBind" /\ hasBinding
        /\ HasFailedWith(p, NilErr)
        /\ lookup[p].err # NilErr \/ (lookup[p].id \in ServerIDs /\ clientMap[lookup[p].id] = NoClient)

\* C8: when the transport call of Call succeeds and the Response carries an
\* Error, Call returns (nil, typed error) with the Response's message and
\* metadata and its code, ErrUnknownCode standing in for an empty code; with no
\* Error it returns (Response, nil); it never returns a response and an error.
C8_CallResult ==
    \A p \in Procs : (op[p].name = "Call" /\ pc[p] = "done") =>
        /\ ~(ret[p].resp # NilResponse /\ ret[p].err # NilErr)
        /\ (Answered(p) /\ answer[p].err = NilErr) =>
             IF answer[p].resp.error.present
             THEN /\ ret[p].resp = NilResponse
                  /\ ret[p].err.type = "pitaya"
                  /\ ret[p].err.msg = answer[p].resp.error.msg
                  /\ ret[p].err.metadata = answer[p].resp.error.metadata
                  /\ ret[p].err.code = IF answer[p].resp.error.code = ""
                                       THEN "ErrUnknownCode"
                                       ELSE answer[p].resp.error.code
             ELSE ret[p] = Result(answer[p].resp, NilErr)

\* the peer answered Error{code: "", message: "x"} and Call returned the typed
\* error with the unknown code
C8_Witness ==
    \E p \in Procs :
        /\ op[p].name = "Call" /\ pc[p] = "done"
        /\ answer[p].resp.error = PErr(TRUE, "", "x", "m")
        /\ ret[p].err = Err("pitaya", "ErrUnknownCode", "x", "m")

\* C9: every request of Call, SendPush, SendKick and BroadcastSessionBind runs
\* under a context with at most ReqTimeout left when it goes out; a request
\* whose deadline has passed on an open connection returns the deadline error;
\* every request in flight returns; the context is released on return.
C9_Deadline ==
    /\ [](\A p \in Procs :
            /\ pc[p] \in RpcPcs => timer[p] \in 0 .. ReqTimeout
            /\ sent[p] # NoRequest => sent[p].deadline \in 0 .. ReqTimeout
            /\ pc[p] \in {"idle", "done"} => timer[p] = NoDeadline)
    /\ [][\A p \in Procs :
            (pc[p] = "rpc_wait" /\ timer[p] = 0 /\ conns[sent[p].conn] = "open"
             /\ pc'[p] = "done")
            => ret'[p] = Result(NilResponse, Transport("DeadlineExceeded"))]_vars
    /\ \A p \in Procs : (pc[p] = "rpc_wait") ~> (pc[p] = "done")

\* a request that went out with the whole timeout came back on its deadline
C9_Witness ==
    \E p \in Procs :
        /\ pc[p] = "done"
        /\ sent[p].deadline = ReqTimeout
        /\ answer[p].err = Transport("DeadlineExceeded")
        /\ ret[p].err = Transport("DeadlineExceeded")
\* C10: a dispatch whose route has no entry in the handler table returns an
\* error with the not-found code and a nil payload, at once: no serializer,
\* no before hook, no handler, no after hook is called and nothing is
\* serialized for it.
C10_MissingRoute ==
    (din # NoInput /\ Short(din.rt) \notin DOMAIN handlers) =>
        /\ dpc = "done"
        /\ dout.payload = Nil
        /\ dout.err.type = "pitaya"
        /\ dout.err.code = "ErrNotFoundCode"
        /\ dlog = <<>>

\* a missing route was dispatched while both hook chains had hooks
C10_Witness ==
    /\ dpc = "done"
    /\ din.rt = Route("", "Room", "Nope")
    /\ nBefore > 0
    /\ nAfter > 0
    /\ dout.err.code = "ErrNotFoundCode"

\* the dispatch in hand found its handler and took a message of type t for a
\* handler that declares type ht
Dispatching(t, ht) ==
    /\ din # NoInput
    /\ Short(din.rt) \in DOMAIN handlers
    /\ getMsgType(din.iface).err = NilErr
    /\ getMsgType(din.iface).t = t
    /\ handlers[Short(din.rt)].MessageType = ht
\* the callback what is in the log
Called(what) == \E i \in 1 .. Len(dlog) : dlog[i].what = what
\* a dispatch starts in this step
DispatchStarts == dpc = "idle" /\ dpc' # "idle"

C12_NotifyOnRequestContinues ==
    /\ [](Dispatching(TypeNotify, TypeRequest) =>
            /\ ValidateMessageType(handlers[Short(din.rt)], TypeNotify)
                   = [exit |-> FALSE, err |-> ErrNotifyOnRequest]
            /\ dout.err.msg # ErrNotifyOnRequest.msg
            /\ dpc = "done" =>
                  \/ Called("handler")
                  \/ dout.err = NewError(ErrUnmarshal, ErrBadRequestCode)
                  \/ dout.err = ErrHook /\ Called("before") /\ ~Called("after"))
    /\ [][(DispatchStarts /\ Dispatching(TypeNotify, TypeRequest)')
            => LET arg == unmarshalHandlerArg(handlers[Short(din'.rt)], din'.data)
               IN  IF arg.err # NilErr
                       THEN dpc' = "done" /\ dout' = Out(Nil, NewError(arg.err, ErrBadRequestCode))
                       ELSE /\ dpc' = (IF nBefore > 0 THEN "before" ELSE "call")
                            /\ darg' = arg.v]_vars

\* a Notify ran the Request handler between both hook chains and came back
\* with the handler's reply serialized
C12_Witness ==
    /\ Dispatching(TypeNotify, TypeRequest)
    /\ ~din.remote
    /\ dpc = "done"
    /\ Called("before") /\ Called("handler") /\ Called("after")
    /\ dout.err = NilErr


\* the calls of one kind of callback, in the order they were made
Events(what) == SelectSeq(dlog, LAMBDA e : e.what = what)
\* the argument the dispatch decoded for its handler
DecodedArg == unmarshalHandlerArg(handlers[dh], din.data).v

\* C13: the before hooks are called in registration order, the first with the
\* decoded argument and each later one with what the hook before it returned;
\* after the first hook that returns an error no further before hook, no
\* handler, no after hook and no serialization is called, and the dispatch
\* returns a nil payload and that very error.
C13_BeforeChain ==
    LET B == Events("before")
    IN  /\ Len(B) <= nBefore
        /\ \A k \in 1 .. Len(B) :
              /\ B[k].i = k
              /\ B[k].v = (IF k = 1 THEN DecodedArg ELSE B[k - 1].ov)
              /\ k < Len(B) => B[k].oerr = NilErr
              /\ B[k].oerr # NilErr =>
                    /\ dpc = "done"
                    /\ dout = Out(Nil, B[k].oerr)
                    /\ dlog[Len(dlog)] = B[k]
                    /\ ~Called("handler") /\ ~Called("after") /\ ~Called("serialize")

\* the first of two before hooks changed the argument, the second got the
\* changed argument and failed, and the dispatch returned its error
C13_Witness ==
    /\ nBefore = 2
    /\ nAfter > 0
    /\ dpc = "done"
    /\ Len(Events("before")) = 2
    /\ Events("before")[1].ov # Events("before")[1].v
    /\ Events("before")[2].oerr = ErrHook
    /\ dout = Out(Nil, ErrHook)

\* what the after chain is given first, as C14 states it: the result and the
\* error of the handler
HandlerOutcome == [v |-> Events("handler")[1].ov, err |-> Events("handler")[1].oerr]
\* what the after chain is given first: the result of the handler, or the ack
\* that replaces it for a remote Notify, and the error of the handler
HandlerOutcomeOrAck ==
    [v |-> IF din.remote /\ dtype = TypeNotify THEN Bytes("ack")
                                               ELSE Events("handler")[1].ov,
     err |-> Events("handler")[1].oerr]

\* every after hook runs once the handler was called, in registration order,
\* the first given `first`, each later one given what the hook before it
\* returned, and what the last returns is the outcome of the dispatch: its
\* error is returned with a nil payload, or else its result is serialized
AfterChainFrom(first) ==
    LET A == Events("after")
        last == IF nAfter = 0 THEN first
                              ELSE [v |-> A[nAfter].ov, err |-> A[nAfter].oerr]
    IN  /\ Len(A) > 0 => Called("handler")
        /\ Len(A) <= nAfter
        /\ \A k \in 1 .. Len(A) :
              /\ A[k].i = k
              /\ A[k].v = (IF k = 1 THEN first.v ELSE A[k - 1].ov)
              /\ A[k].err = (IF k = 1 THEN first.err ELSE A[k - 1].oerr)
        /\ (Called("handler") /\ dpc \in {"serialize", "done"}) =>
              /\ Len(A) = nAfter
              /\ IF last.err # NilErr
                     THEN dpc = "done" /\ dout = Out(Nil, last.err) /\ ~Called("serialize")
                     ELSE dpc = "done" => /\ Called("serialize")
                                          /\ Events("serialize")[1].v = last.v

\* C14 as stated: once the handler was called every after hook runs, in
\* registration order, the first given the result and the error of the
\* handler.
C14_AfterChainGetsHandlerResult == AfterChainFrom(HandlerOutcome)

\* C14 amended: once the handler was called every after hook runs, in
\* registration order, whether or not the handler or an earlier after hook
\* returned an error; the first is given the error of the handler and its
\* result, or the bytes "ack" in place of the result when the call is remote
\* and the message a Notify; each later one is given what the hook before it
\* returned; what the last one returns replaces the handler's outcome.
C14_AfterChain == AfterChainFrom(HandlerOutcomeOrAck)

\* the handler failed, the first of two after hooks saw its error and passed
\* it on, the second replaced it with its own, and that one was returned
C14_Witness ==
    /\ nAfter = 2
    /\ dpc = "done"
    /\ Len(Events("after")) = 2
    /\ Events("handler")[1].oerr = ErrHandler
    /\ Events("after")[1].err = ErrHandler
    /\ Events("after")[1].oerr = ErrHandler
    /\ Events("after")[2].oerr = ErrHook
    /\ dout = Out(Nil, ErrHook)

\* the phase of a callback within one dispatch
Phase(what) ==
    CASE what = "unmarshal" -> 0
      [] what = "before" -> 1
      [] what = "handler" -> 2
      [] what = "after" -> 3
      [] what = "serialize" -> 4

\* C15: within one dispatch every before hook has returned before the handler
\* is called, the handler has returned before any after hook is called, every
\* after hook has returned before the response is serialized and returned; the
\* handler is called at most once.
C15_PhasesInOrder ==
    /\ \A i, j \in 1 .. Len(dlog) : i < j => Phase(dlog[i].what) <= Phase(dlog[j].what)
    /\ Len(Events("handler")) <= 1
    /\ Len(Events("serialize")) <= 1
    /\ Called("handler") =>
          /\ Len(Events("before")) = nBefore
          /\ \A k \in 1 .. nBefore : Events("before")[k].oerr = NilErr
    /\ Called("serialize") => Called("handler") /\ Len(Events("after")) = nAfter
    /\ (dpc = "done" /\ dout.err = NilErr) => Called("serialize")
    /\ dpc # "done" => dout = NoOut

\* a dispatch went through two before hooks, the handler, two after hooks and
\* the serializer
C15_Witness ==
    /\ nBefore = 2
    /\ nAfter = 2
    /\ dpc = "done"
    /\ dout.err = NilErr
    /\ Len(dlog) >= 6

C17_FailedInstallChangesNothing ==
    dictErr # NilErr => routes = dictOld.routes /\ codes = dictOld.codes


\* the methods of the service's type, at that level of indirection, that
\* qualify as handlers (fn = "ExtractHandler") or remotes: suitable methods of
\* an exported type
Qualifying(fn, typ) ==
    IF ~isExported(svc.comp.typeName) THEN {}
    ELSE IF fn = "ExtractHandler" THEN DOMAIN suitableHandlerMethods(svc.comp, typ)
    ELSE DOMAIN suitableRemoteMethods(svc.comp, typ)
\* what the call registered in the service
Registered(fn) == IF fn = "ExtractHandler" THEN svc.Handlers ELSE svc.Remotes
\* the error message ends with the hint
HasHint(fn) ==
    regRet.err.msg = "type " \o svc.Name \o " has no exported methods of "
                        \o (IF fn = "ExtractHandler" THEN "handler" ELSE "remote")
                        \o " type (hint: pass a pointer to value of that type)"

\* C18: ExtractHandler, and likewise ExtractRemote, on a service whose type
\* has no qualifying method returns an error and registers nothing, and the
\* error carries the hint exactly when the pointer to that type has a
\* qualifying method; with qualifying methods it returns nil and has
\* registered each of them with the service's receiver as its Receiver.
C18_Extract ==
    \A fn \in {"ExtractHandler", "ExtractRemote"} :
        regRet.fn = fn =>
            IF Qualifying(fn, TypeOf(svc.comp)) = {}
                THEN /\ regRet.err # NilErr
                     /\ DOMAIN Registered(fn) = {}
                     /\ HasHint(fn) <=> Qualifying(fn, PtrTo(TypeOf(svc.comp))) # {}
                ELSE /\ regRet.err = NilErr
                     /\ DOMAIN Registered(fn) = Qualifying(fn, TypeOf(svc.comp))
                     /\ \A n \in DOMAIN Registered(fn) :
                           Registered(fn)[n] = Receiver(svc.comp)

\* a value whose only handler method sits on the pointer type was refused
\* with the hint and nothing was registered
C18_Witness ==
    /\ svc.comp.form = "value"
    /\ svc.comp.typeName = "Room"
    /\ svc.comp.hv = {}
    /\ svc.comp.hp = {"Leave"}
    /\ regRet.fn = "ExtractHandler"
    /\ HasHint("ExtractHandler")
    /\ DOMAIN svc.Handlers = {}


\* the clients allocated so far
Allocated == 1 .. (nextClient - 1)
\* the connected clients whose connection is k
Owners(k) == {c \in Allocated : clients[c].connected /\ clients[c].conn = k}

\* C19: connect and disconnect run under the client's mutex. A connected
\* client's connection is open, and every open connection belongs to exactly
\* one connected client, so concurrent connects never open a second transport
\* for a client; the mutex is held only by a connect that found the client
\* disconnected. connect on a connected client changes nothing and goes on; a
\* client only becomes connected in the step of the goroutine that holds its
\* mutex, which opens exactly one connection; disconnect closes the open
\* connection of a connected client, leaves connected false and changes
\* nothing on a disconnected one; a closed connection stays closed.
C19_ConnectUnderLock ==
    /\ [](/\ \A c \in Allocated :
               clients[c].connected =>
                   conns[clients[c].conn] = "open" /\ clients[c].cli = clients[c].conn
          /\ \A k \in ConnIds : conns[k] = "open" => Cardinality(Owners(k)) = 1
          /\ \A c \in ClientIds : lock[c] # NoProc =>
               /\ pc[lock[c]] = "conn_dial"
               /\ cl[lock[c]] = c
               /\ ~clients[c].connected)
    /\ [][/\ \A p \in Procs :
               (pc[p] = "conn_lock" /\ pc'[p] # "conn_lock" /\ clients[cl[p]].connected)
               => pc'[p] = "rpc_issue" /\ UNCHANGED <<clients, conns, lock>>
          /\ \A c \in Allocated :
               (~clients[c].connected /\ clients'[c].connected) =>
                   /\ lock[c] # NoProc
                   /\ lock'[c] = NoProc
                   /\ conns[clients'[c].conn] = "unused"
                   /\ conns' = [conns EXCEPT ![clients'[c].conn] = "open"]
          /\ \A c \in Allocated :
               (clients[c].connected /\ ~clients'[c].connected) =>
                   /\ lock[c] = NoProc
                   /\ conns' = [conns EXCEPT ![clients[c].conn] = "closed"]
          /\ \A p \in Procs :
               (pc[p] = "rm_disconnect" /\ pc'[p] # "rm_disconnect"
                /\ ~clients[cl[p]].connected)
               => UNCHANGED <<clients, conns, lock>>
          /\ \A k \in ConnIds :
               /\ conns[k] = "closed" => conns'[k] = "closed"
               /\ (conns[k] = "open" /\ conns'[k] # "open") => conns'[k] = "closed"]_vars

\* two goroutines went to connect the same lazy client: one holds the mutex
\* and dials while the other waits for it
C19_Witness ==
    /\ lazy
    /\ pc[1] = "conn_dial"
    /\ pc[2] = "conn_lock"
    /\ cl[1] = cl[2]
    /\ lock[cl[1]] = 1

StartedId(p) == IF op'[p].id # "" THEN op'[p].id ELSE lookup'[p].id
\* client c has never been connected
NeverConnected(c) == ~clients[c].connected /\ clients[c].cli = NoConn
\* the step allocates a grpcClient (AddServer alone does)
Allocates == nextClient' = nextClient + 1

\* C21: AddServer stores the new peer client under s.ID whatever the eager
\* connect did: in lazy mode it opens no connection; in eager mode it either
\* opens one, or the connect fails and the client is stored disconnected.  A
\* later Call, SendPush or SendKick that resolves to s.ID finds that client
\* (it does not fail with ErrNoConnectionToServer), its RPC method sees the
\* client disconnected and enters connect, and connect dials again.
C21_AddServerKeepsClient ==
    [][
        /\ Allocates =>
            LET c == nextClient
            IN  /\ \E id \in ServerIDs :
                      /\ clientMap' = [clientMap EXCEPT ![id] = c]
                /\ clients'[c].address # ""
                /\ lazy => /\ ~clients'[c].connected
                           /\ clients'[c].conn = NoConn
                           /\ conns' = conns
                /\ ~lazy =>
                      \/ /\ clients'[c].connected
                         /\ clients'[c].conn \in ConnIds
                         /\ conns[clients'[c].conn] = "unused"
                         /\ conns' = [conns EXCEPT ![clients'[c].conn] = "open"]
                      \/ /\ ~clients'[c].connected
                         /\ clients'[c].conn = NoConn
                         /\ conns' = conns
        /\ \A p \in Procs : \A name \in {"Call", "SendPush", "SendKick"} :
              /\ (Starts(p, name) /\ Entry(StartedId(p)) # NoClient)
                     => ~FailedWith(p, ErrNoConnectionToServer)
              /\ (Starts(p, name) /\ pc'[p] = "rpc_check")
                     => (cl'[p] = Entry(StartedId(p)) /\ cl'[p] # NoClient)
        /\ \A p \in Procs :
              /\ (pc[p] = "rpc_check" /\ NeverConnected(cl[p]) /\ pc'[p] # pc[p])
                     => pc'[p] = "conn_lock"
              /\ (pc[p] = "conn_lock" /\ ~clients[cl[p]].connected /\ pc'[p] # pc[p])
                     => (pc'[p] = "conn_dial" /\ lock'[cl[p]] = p)
              /\ (pc[p] = "conn_dial" /\ pc'[p] # pc[p])
                     => \/ /\ pc'[p] = "rpc_issue"
                           /\ clients'[cl[p]].connected
                           /\ conns'[clients'[cl[p]].conn] = "open"
                        \/ FailedWith(p, ErrDial)
      ]_vars

\* eager mode: the client stored under A was left disconnected by AddServer,
\* and a SendKick that found it is dialling again
C21_Witness ==
    /\ ~lazy
    /\ \E p \in Procs :
          /\ pc[p] = "conn_dial"
          /\ op[p].name = "SendKick"
          /\ clientMap["A"] = cl[p]
          /\ NeverConnected(cl[p])


\* the key is in the metadata with a value that is not empty
Present(sv, k) == sv.Metadata[k] # Missing /\ sv.Metadata[k] # ""
\* the pair the address is to come from: TRUE the external one
WantsExternal(sv) ==
    IF Present(sv, RegionKey)
    THEN sv.Metadata[RegionKey] # LocalRegion /\ Present(sv, GRPCExternalHostKey)
    ELSE Present(sv, GRPCExternalHostKey)
WantedHostKey(sv) == IF WantsExternal(sv) THEN GRPCExternalHostKey ELSE GRPCHostKey
WantedPortKey(sv) == IF WantsExternal(sv) THEN GRPCExternalPortKey ELSE GRPCPortKey
\* the metadata holds a host that is not empty and the port of the same pair
HasWantedPair(sv) ==
    Present(sv, WantedHostKey(sv)) /\ sv.Metadata[WantedPortKey(sv)] # Missing
\* the step stores a new peer client for sv, under sv.ID, at the host and
\* the port of the wanted pair
StoresAtWantedPair(sv) ==
    /\ Allocates
    /\ clientMap' = [clientMap EXCEPT ![sv.ID] = nextClient]
    /\ clients'[nextClient].address
          = Get(sv.Metadata, WantedHostKey(sv)) \o ":" \o Get(sv.Metadata, WantedPortKey(sv))

\* C22 as stated: for every reported server AddServer stores, under s.ID, a
\* peer client at the internal host and port when the region is present and
\* the caller's, or is present and differs while no external host is present,
\* or is missing with no external host present; and at the external host and
\* port otherwise.
C22_StoresAtSelectedAddress ==
    [][seen' = seen => StoresAtWantedPair(seen)]_vars

\* C22: as above for a server whose metadata holds, for the selected pair, a
\* host that is not empty and the port; for any other server AddServer stores
\* nothing.
C22_StoresAtSelectedAddressIfNamed ==
    [][seen' = seen =>
          IF HasWantedPair(seen)
          THEN StoresAtWantedPair(seen)
          ELSE UNCHANGED <<clientMap, clients, nextClient, conns>>]_vars

\* a server of another region with an external host has been reported and is
\* stored at its external host and port, although it has an internal pair too
C22_Witness ==
    /\ seen = Server("B", "chat", Meta("eu", "10.0.0.1", "3434", "1.1.1.1", "3435"))
    /\ clientMap["A"] = NoClient
    /\ clientMap["B"] # NoClient
    /\ clients[clientMap["B"]].address = "1.1.1.1:3435"


\* the callbacks that are handed the handler's argument: the before hooks and
\* the handler, in the order they were called
ArgTakers == SelectSeq(dlog, LAMBDA e : e.what \in {"before", "handler"})
\* the dispatch in hand got past the check of the message type
PastValidation == dh # "" /\ (dlog # <<>> \/ dpc \in {"before", "call", "after", "serialize"})

\* C23: for a raw handler the serializer is not called and the first callback
\* that takes the argument is handed the payload's bytes as they came; for a
\* typed handler the serializer is called once, first of all, on the payload,
\* and when it succeeds the first callback that takes the argument is handed
\* the instance it decoded; when it fails nothing else is called and the
\* dispatch returns a nil payload and that error under the BadRequest code.
C23_DecodesArgument ==
    PastValidation =>
        LET h == handlers[dh]
            D == Events("unmarshal")
        IN  /\ h.IsRawArg =>
                  /\ D = <<>>
                  /\ ArgTakers # <<>> => ArgTakers[1].v = Bytes(din.data)
            /\ (~h.IsRawArg /\ h.Typed) =>
                  /\ Len(D) = 1
                  /\ dlog[1] = D[1]
                  /\ D[1].v = Bytes(din.data)
                  /\ IF D[1].oerr = NilErr
                     THEN /\ D[1].ov.kind = "obj"
                          /\ ArgTakers # <<>> => ArgTakers[1].v = D[1].ov
                     ELSE /\ dlog = <<D[1]>>
                          /\ dpc = "done"
                          /\ dout.payload = Nil
                          /\ dout.err = NewError(D[1].oerr, ErrBadRequestCode)
                          /\ dout.err.code = ErrBadRequestCode

\* a typed handler's payload failed to decode: the dispatch is over with the
\* BadRequest error although hooks are registered on both sides
C23_Witness ==
    /\ dh = "Room.Join"
    /\ nBefore > 0 /\ nAfter > 0
    /\ dpc = "done"
    /\ dlog = <<Ev("unmarshal", 0, Bytes("garbage"), NilErr, Nil, ErrUnmarshal)>>
    /\ dout = Out(Nil, NewError(ErrUnmarshal, ErrBadRequestCode))


\* C24: whenever no pool operation is in progress, every peer client whose
\* connection is open is the client stored in the map under some server id.
C24_OpenClientsAreStored ==
    (\A p \in Procs : pc[p] = "idle") =>
        \A c \in Allocated :
            clients[c].connected => \E id \in ServerIDs : clientMap[id] = c


\* C25: at the step where a peer client's RPC method hands its request to the
\* transport, the connection the client's stub wraps is open.
C25_IssuesOnOpenConnection ==
    [][\A p \in Procs :
          (pc[p] = "rpc_issue" /\ pc'[p] = "rpc_wait") =>
              /\ clients[cl[p]].cli \in ConnIds
              /\ conns[clients[cl[p]].cli] = "open"]_vars


\* routes and codes are each other's inverse, and every route is trimmed
DictionaryInverse ==
    /\ \A r \in DOMAIN routes : routes[r] \in DOMAIN codes /\ codes[routes[r]] = r
    /\ \A c \in DOMAIN codes : codes[c] \in DOMAIN routes /\ routes[codes[c]] = c
    /\ \A r \in DOMAIN routes : TrimSpace(r) = r
\* the last SetDictionary, if it was given nil, changed nothing and returned nil
NilChangedNothing ==
    dictArg.nil => /\ routes = dictOld.routes
                   /\ codes = dictOld.codes
                   /\ dictErr = NilErr
\* the step keeps every entry as it is
EntriesKept ==
    /\ \A r \in DOMAIN routes : r \in DOMAIN routes' /\ routes'[r] = routes[r]
    /\ \A c \in DOMAIN codes : c \in DOMAIN codes' /\ codes'[c] = codes[c]

====
